---------------------------- MODULE Spec2Model ----------------------------
(***************************************************************************)
(* Voice recorder: the audio backend selection of app/audio_utils.py, the  *)
(* AudioRecorder of app/audio_utils.py and the RecordingService of         *)
(* services/recording_service.py, as one state machine.                    *)
(*                                                                         *)
(* Time is a discrete clock `now`.  Computation takes no time; time passes *)
(* only while every live thread sits in a blocking call (a stream read, a  *)
(* time.sleep, a Thread.join with timeout, a read that hangs) or the       *)
(* caller is between two calls.  Steps of different threads that happen at *)
(* the same instant interleave in every order.                             *)
(***************************************************************************)
EXTENDS Integers, Sequences, FiniteSets, TLC

\* ------------------------------------------------------------------ bounds
\* Durations are scaled down to keep the clock small.  What the model keeps of
\* their sizes is that the join timeout is longer than a working chunk read
\* and than one sleep of a polling loop.

\* threads one recorder object may launch (accepted start_recording calls)
MaxThreads == 2
\* start_recording / stop_recording calls made on one recorder object
MaxCalls == 3
\* the clock runs from 0 to MaxTime
MaxTime == 4
\* longest duration, in ticks, a caller of AudioRecorder asks for
MaxDur == 3
\* longest duration_minutes a caller of RecordingService asks for
MaxMinutes == 1
\* ticks one chunk read of a working stream takes (chunk_size / sample_rate s)
ChunkTicks == 2
\* ticks of the time.sleep(0.1) poll of the sounddevice and plyer loops
SleepTicks == 2
\* ticks of one second of the wall clock (the resolution of the file names)
SecondTicks == 2
\* ticks of the 5.0 s of Thread.join(timeout=5.0) and threading.Timer(5.0, ..)
JoinTicks == 3
\* ticks of one minute of a RecordingService duration (duration_minutes * 60)
MinuteTicks == 3

\* hours of a day, minutes of an hour, seconds of a minute of the wall clock
HoursPerDay == 2
MinutesPerHour == 2
SecondsPerMinute == 2
\* the wall clock of the scheduler runs from 0 to MaxClock seconds
MaxClock == 10
\* longest duration, in minutes, the user types into the scheduler
MaxDuration == 2

\* ------------------------------------------------------- program constants

sample_rate == 44100
\* the recorder is given no duration (duration_seconds=None)
None == -1
\* recording_thread / audio_stream / wave_file hold no object
NoRef == 0

Platforms == {"android", "desktop"}
Libs == {"pyaudio", "sounddevice", "soundfile", "plyer", "jnius"}
AudioLibs == {"pyaudio", "sounddevice", "plyer", "None"}
ThreadIds == 1..MaxThreads
\* the durations a caller of AudioRecorder passes: none, zero, one shorter than
\* a chunk-interval, the longest
Durations == {None, 0, 1, MaxDur}
\* the duration_minutes a caller of RecordingService passes: zero, the longest
Minutes == {0, MaxMinutes}

VARIABLES
  platform,         \* kivy.utils.platform
  installed,        \* the optional libraries that import without ImportError
  import_pc,        \* position in the module-level import of audio_utils.py
  audio_lib,        \* audio_utils.audio_lib
  cls,              \* class of the recorder object: AudioRecorder / RecordingService
  is_recording,     \* self.is_recording
  recording_thread, \* self.recording_thread: a thread id, NoRef for None
  audio_data,       \* AudioRecorder.audio_data
  audio_stream,     \* RecordingService.audio_stream: a stream id or NoRef
  wave_file,        \* RecordingService.wave_file: a file id or NoRef
  wake_lock,        \* RecordingService.wake_lock is not None
  wake_held,        \* reference count of the PARTIAL_WAKE_LOCK
  notification,     \* what the notification manager shows under notification_id
  timers,           \* deadlines of the pending threading.Timer(5.0, hide_notification)
  threads,          \* the worker threads, by id
  nthreads,         \* worker threads created so far
  streams,          \* the input streams, by the id of the thread that opened them
  files,            \* the output file objects, by the id of the thread that opened them
  now,              \* time.time()
  caller,           \* the thread that calls start_recording / stop_recording
  ncalls,           \* calls made so far
  last_call,        \* the call made last: its name, its result, the OS bridge calls it made
  faults,           \* the exceptions the backend and the file system raised: <<thread, where>>
  wall,             \* datetime.datetime.now() of the scheduler, as a timestamp
  store,            \* JsonStore('recording_settings.json'): the entry 'recording'
  ui,               \* VoiceRecorderApp: its widgets' texts and self.is_recording
  intents,          \* the PendingIntents the OS holds for the application
  alarms,           \* the alarms pending in the OS AlarmManager
  app_call,         \* the handler of VoiceRecorderApp that ran last, and how it ended
  service,          \* the last run of services/service.py: what it called start_service with
  simple            \* SimpleVoiceRecorderApp: its fields, widgets' texts and Clock events

appVars == <<wall, store, ui, intents, alarms, app_call, service, simple>>
envVars == <<platform, installed, import_pc, audio_lib, cls, appVars>>
objVars == <<is_recording, recording_thread, audio_data, audio_stream, wave_file>>
osVars == <<wake_lock, wake_held, notification, timers>>
runVars == <<threads, nthreads, streams, files, now, caller, ncalls, last_call, faults>>
vars == <<envVars, objVars, osVars, runVars>>

\* ------------------------------------------------------- backend selection

\* A different import: one priority order pyaudio, sounddevice, plyer, tried
\* on every platform.
import_step_one_order(p, inst, pc, lib) ==
  CASE pc = "begin" ->
         [pc |-> "try_pyaudio", lib |-> "None"]
    [] pc = "try_pyaudio" ->
         IF "pyaudio" \in inst THEN [pc |-> "done", lib |-> "pyaudio"]
         ELSE [pc |-> "try_sounddevice", lib |-> lib]
    [] pc = "try_sounddevice" ->
         IF "sounddevice" \in inst THEN [pc |-> "try_soundfile", lib |-> lib]
         ELSE [pc |-> "try_plyer", lib |-> lib]
    [] pc = "try_soundfile" ->
         IF "soundfile" \in inst THEN [pc |-> "done", lib |-> "sounddevice"]
         ELSE [pc |-> "try_plyer", lib |-> lib]
    [] pc = "try_plyer" ->
         IF "plyer" \in inst THEN [pc |-> "done", lib |-> "plyer"]
         ELSE [pc |-> "done", lib |-> "None"]
    [] OTHER -> [pc |-> "done", lib |-> lib]

\* One step of the module-level import: the next position and audio_lib.
\* ImportError is raised exactly for a library that is not installed.
import_step(p, inst, pc, lib) ==
  CASE pc = "begin" ->
         [pc |-> "try_pyaudio", lib |-> "None"]
    [] pc = "try_pyaudio" ->
         IF "pyaudio" \in inst THEN [pc |-> "done", lib |-> "pyaudio"]
         ELSE IF p = "android" THEN [pc |-> "try_plyer", lib |-> lib]
         ELSE [pc |-> "try_sounddevice", lib |-> lib]
    [] pc = "try_plyer" ->
         IF "plyer" \in inst THEN [pc |-> "done", lib |-> "plyer"]
         ELSE [pc |-> "done", lib |-> "None"]
    [] pc = "try_sounddevice" ->
         IF "sounddevice" \in inst THEN [pc |-> "try_soundfile", lib |-> lib]
         ELSE [pc |-> "done", lib |-> "None"]
    [] pc = "try_soundfile" ->
         IF "soundfile" \in inst THEN [pc |-> "done", lib |-> "sounddevice"]
         ELSE [pc |-> "done", lib |-> "None"]
    [] OTHER -> [pc |-> "done", lib |-> lib]

RECURSIVE import_run(_, _, _, _)
\* The whole import, from a position to its end: the value audio_lib is left with.
import_run(p, inst, pc, lib) ==
  IF pc = "done" THEN lib
  ELSE LET s == import_step(p, inst, pc, lib) IN import_run(p, inst, s.pc, s.lib)

\* recording_service.py: its module-level name pyaudio is the module or None
svc_pyaudio(p, inst) ==
  IF p = "android" THEN {"pyaudio", "jnius"} \subseteq inst
  ELSE "pyaudio" \in inst

\* recording_service.py: the jnius classes and primary_external_storage_path
\* are bound only when the whole android import block succeeded
svc_bridge(p, inst) == p = "android" /\ {"pyaudio", "jnius"} \subseteq inst


\* ------------------------------------------------------------ shared state

\* a thread: its position and the locals of its worker function
NoThread == [pc |-> "unborn", path |-> 0, dur |-> None, start_time |-> 0, wake |-> 0, rd |-> NoRef]
\* a thread that has returned: its locals are gone
DoneThread == [NoThread EXCEPT !.pc = "done"]
\* a thread ended by an exception no handler caught
EscapedThread == [NoThread EXCEPT !.pc = "escaped"]
\* a wave / soundfile object: chunks of chunk_size frames written by writeframes,
\* len ticks of samples written by sf.write, tone frames of the 440 Hz tone
\* cut: the chunks it held when a read of the thread that opened it failed
NoFile == [state |-> "none", path |-> 0, chunks |-> 0, len |-> 0, tone |-> 0, cut |-> None]
IdleCaller == [pc |-> "idle", wake |-> 0, joined |-> NoRef]
NoCall == [op |-> "none", ret |-> "None", launched |-> FALSE, bridge |-> {}]

\* Python truthiness of duration_seconds: None and 0 are both falsy
truthy(d) == d # None /\ d # 0

\* datetime.now().strftime("%Y%m%d_%H%M%S"): the clock, to the second
create_recording_filename(t) == t \div SecondTicks

\* Thread.is_alive(): started and not yet ended
terminated(w) == threads[w].pc \in {"done", "escaped"}
alive(w) == threads[w].pc \notin {"unborn", "unstarted", "done", "escaped"}

\* pcs at which a thread sits in a blocking call that returns at its deadline,
\* and in a call that hangs (returns at some time after its deadline, or never)
TimedPcs == {"py_reading", "sleeping", "rs_reading"}
HungPcs == {"py_hung", "rs_hung"}

\* the thread record after a step that moves only the pc
at(w, pc) ==
  IF pc = "done" THEN DoneThread
  ELSE IF pc = "escaped" THEN EscapedThread
  ELSE [threads[w] EXCEPT !.pc = pc, !.wake = 0, !.rd = NoRef]
goto(w, pc) == [threads EXCEPT ![w] = at(w, pc)]

\* what a worker step leaves alone besides threads, streams, files, is_recording
workerFrame ==
  UNCHANGED <<envVars, osVars, recording_thread, audio_data, audio_stream, wave_file,
              nthreads, now, caller, ncalls, last_call>>

\* the backend or the file system raises in thread w at program point `where`
fault(w, where) == faults' = faults \cup {<<w, where>>}

\* ------------------------------------------------------------ AudioRecorder

\* A different start_recording: one without the is_recording test.
ar_start_never_rejected(rec) == FALSE

\* A different start_recording: one that rejects every call.
ar_start_always_rejected(rec) == TRUE

\* AudioRecorder.start_recording: `if self.is_recording: return False`
ar_start_rejected(rec) == rec

\* A different worker: one without any except clause.
ar_handler_none(pc) == "escaped"

\* Where an exception raised at a program point of the AudioRecorder worker is
\* caught: the pc control continues at.  "escaped": no handler catches it.
ar_handler(pc) ==
  CASE pc \in {"py_open_stream", "py_open_file"} -> "ar_finally"
    [] pc = "py_read" -> "py_exit"
    [] pc \in {"sd_rec", "sd_write"} -> "ar_finally"
    [] pc \in {"pl_start", "pl_stop"} -> "dm_open"
    [] pc = "dm_open" -> "dm_finally"
    [] OTHER -> "escaped"

\* the test inside the three AudioRecorder loops:
\* `if duration_seconds and (time.time() - start_time) >= duration_seconds: break`
ar_duration_elapsed(d, start, t) == truthy(d) /\ (t - start) >= d

\* `while self.is_recording:` with the break above: the loop is left
ar_loop_exits(rec, d, start, t) == ~rec \/ ar_duration_elapsed(d, start, t)

AR_start_recording(d) ==
  /\ cls = "AudioRecorder" /\ caller.pc = "idle" /\ ncalls < MaxCalls
  /\ ncalls' = ncalls + 1
  /\ IF ar_start_rejected(is_recording)
     THEN /\ last_call' = [NoCall EXCEPT !.op = "start", !.ret = "False"]
          /\ UNCHANGED <<is_recording, audio_data, recording_thread, threads, nthreads>>
     ELSE /\ nthreads < MaxThreads
          /\ is_recording' = TRUE
          /\ audio_data' = <<>>
          /\ nthreads' = nthreads + 1
          /\ threads' = [threads EXCEPT ![nthreads + 1] =
                 [NoThread EXCEPT !.pc = "worker", !.dur = d,
                                  !.path = create_recording_filename(now)]]
          /\ recording_thread' = nthreads + 1
          /\ last_call' = [NoCall EXCEPT !.op = "start", !.ret = "True", !.launched = TRUE]
  /\ UNCHANGED <<envVars, osVars, audio_stream, wave_file, streams, files, now, caller,
                 faults>>

AR_stop_recording ==
  /\ cls = "AudioRecorder" /\ caller.pc = "idle" /\ ncalls < MaxCalls
  /\ ncalls' = ncalls + 1
  /\ is_recording' = FALSE
  /\ last_call' = [NoCall EXCEPT !.op = "stop"]
  /\ caller' = IF recording_thread # NoRef
               THEN [pc |-> "ar_join", wake |-> now + JoinTicks, joined |-> recording_thread]
               ELSE caller
  /\ UNCHANGED <<envVars, osVars, recording_thread, audio_data, audio_stream, wave_file,
                 threads, nthreads, streams, files, now, faults>>

\* A different join: one without a timeout.
join_without_timeout(ended, deadline, t) == ended

\* Thread.join(timeout=5.0) returns: the thread has ended, or the time is up
join_returns(ended, deadline, t) == ended \/ t >= deadline

\* recording_thread.join(timeout=5.0) returns: the thread ended, or the time is up
AR_join_returns ==
  /\ caller.pc = "ar_join"
  /\ join_returns(terminated(caller.joined), caller.wake, now)
  /\ caller' = IdleCaller
  /\ UNCHANGED <<envVars, objVars, osVars, threads, nthreads, streams, files, now,
                 ncalls, last_call, faults>>

\* _record_with_pyaudio up to the loop: self.audio.open(...), wave.open(filepath,
\* 'wb'), start_time = time.time(); either open may raise
Py_open(w) ==
  /\ cls = "AudioRecorder" /\ audio_lib = "pyaudio" /\ threads[w].pc = "worker"
  /\ \/ /\ threads' = goto(w, ar_handler("py_open_stream"))
        /\ fault(w, "open_stream")
        /\ UNCHANGED <<streams, files>>
     \/ /\ streams' = [streams EXCEPT ![w] = "open"]
        /\ threads' = goto(w, ar_handler("py_open_file"))
        /\ fault(w, "open_file")
        /\ UNCHANGED files
     \/ /\ streams' = [streams EXCEPT ![w] = "open"]
        /\ files' = [files EXCEPT ![w] =
                       [NoFile EXCEPT !.state = "open", !.path = threads[w].path]]
        /\ threads' = [threads EXCEPT ![w].pc = "py_loop", ![w].start_time = now]
        /\ UNCHANGED faults
  /\ UNCHANGED is_recording /\ workerFrame

\* the loop test, and stream.read(...) entered: it returns a chunk one
\* chunk-interval later, raises, or hangs (returns later than that, or never)
Py_loop(w) ==
  /\ threads[w].pc = "py_loop"
  /\ IF ar_loop_exits(is_recording, threads[w].dur, threads[w].start_time, now)
     THEN threads' = goto(w, "py_exit") /\ UNCHANGED <<files, faults>>
     ELSE \/ /\ threads' = [threads EXCEPT ![w].pc = "py_reading",
                                           ![w].wake = now + ChunkTicks]
             /\ UNCHANGED <<files, faults>>
          \/ /\ threads' = goto(w, ar_handler("py_read"))
             /\ files' = [files EXCEPT ![w].cut = files[w].chunks]
             /\ fault(w, "read")
          \/ /\ threads' = [threads EXCEPT ![w].pc = "py_hung",
                                           ![w].wake = now + ChunkTicks + 1]
             /\ fault(w, "hang")
             /\ UNCHANGED files
  /\ UNCHANGED <<is_recording, streams>> /\ workerFrame

\* the read returns its chunk; wf.writeframes(data)
Py_read_returns(w) ==
  /\ threads[w].pc \in {"py_reading", "py_hung"} /\ now >= threads[w].wake
  /\ files' = [files EXCEPT ![w].chunks = @ + 1]
  /\ threads' = goto(w, "py_loop")
  /\ UNCHANGED <<is_recording, streams, faults>> /\ workerFrame

\* a read that hung ends with an exception: except ... break
Py_hung_raises(w) ==
  /\ threads[w].pc = "py_hung" /\ now >= threads[w].wake
  /\ threads' = goto(w, ar_handler("py_read"))
  /\ files' = [files EXCEPT ![w].cut = files[w].chunks]
  /\ fault(w, "read")
  /\ UNCHANGED <<is_recording, streams>> /\ workerFrame

\* the with block ends (the file is closed, its header patched);
\* stream.stop_stream(); stream.close()
Py_exit(w) ==
  /\ threads[w].pc = "py_exit"
  /\ files' = [files EXCEPT ![w].state = "closed"]
  /\ streams' = [streams EXCEPT ![w] = "closed"]
  /\ threads' = goto(w, "ar_finally")
  /\ UNCHANGED <<is_recording, faults>> /\ workerFrame

\* finally: self.is_recording = False (pyaudio, sounddevice and plyer workers)
Ar_finally(w) ==
  /\ threads[w].pc = "ar_finally"
  /\ is_recording' = FALSE
  /\ threads' = goto(w, "done")
  /\ UNCHANGED <<streams, files, faults>> /\ workerFrame

\* frames = int(duration_seconds * sample_rate) if duration_seconds, else
\* sample_rate * 300: the length of the buffer sd.rec fills, in ticks
sd_frames(d) == IF truthy(d) THEN d ELSE 300 * SecondTicks

\* recording[:int((time.time() - start_time) * sample_rate)]: the length written
sd_written(d, start, t) == IF (t - start) < sd_frames(d) THEN t - start ELSE sd_frames(d)

\* sd.rec(frames, ...); start_time = time.time()
Sd_rec(w) ==
  /\ cls = "AudioRecorder" /\ audio_lib = "sounddevice" /\ threads[w].pc = "worker"
  /\ \/ /\ threads' = [threads EXCEPT ![w].pc = "sd_loop", ![w].start_time = now]
        /\ UNCHANGED faults
     \/ /\ threads' = goto(w, ar_handler("sd_rec"))
        /\ fault(w, "open_stream")
  /\ UNCHANGED <<is_recording, streams, files>> /\ workerFrame

\* while self.is_recording: if duration elapsed: break; time.sleep(0.1)
\* after the loop: sd.stop(); sf.write(filepath, recording[:elapsed * rate], rate)
Sd_loop(w) ==
  /\ threads[w].pc = "sd_loop"
  /\ IF ar_loop_exits(is_recording, threads[w].dur, threads[w].start_time, now)
     THEN \/ /\ files' = [files EXCEPT ![w] =
                   [NoFile EXCEPT !.state = "closed", !.path = threads[w].path,
                      !.len = sd_written(threads[w].dur, threads[w].start_time, now)]]
             /\ threads' = goto(w, "ar_finally")
             /\ UNCHANGED faults
          \/ /\ threads' = goto(w, ar_handler("sd_write"))
             /\ fault(w, "open_file")
             /\ UNCHANGED files
     ELSE /\ threads' = [threads EXCEPT ![w].pc = "sleeping", ![w].wake = now + SleepTicks]
          /\ UNCHANGED <<files, faults>>
  /\ UNCHANGED <<is_recording, streams>> /\ workerFrame

\* time.sleep(0.1) returns, in the sounddevice loop and in the plyer loop
Sleep_returns(w) ==
  /\ threads[w].pc = "sleeping" /\ now >= threads[w].wake
  /\ threads' = goto(w, IF audio_lib = "sounddevice" THEN "sd_loop" ELSE "pl_loop")
  /\ UNCHANGED <<is_recording, streams, files, faults>> /\ workerFrame

\* audio.start(); start_time = time.time()
Pl_start(w) ==
  /\ cls = "AudioRecorder" /\ audio_lib = "plyer" /\ threads[w].pc = "worker"
  /\ \/ /\ threads' = [threads EXCEPT ![w].pc = "pl_loop", ![w].start_time = now]
        /\ UNCHANGED faults
     \/ /\ threads' = goto(w, ar_handler("pl_start"))
        /\ fault(w, "open_stream")
  /\ UNCHANGED <<is_recording, streams, files>> /\ workerFrame

\* while self.is_recording: if duration elapsed: break; time.sleep(0.1)
\* after the loop: audio.stop(); audio.file_path = filepath.  plyer has saved
\* to the path it held when it stopped: nothing is written to filepath
Pl_loop(w) ==
  /\ threads[w].pc = "pl_loop"
  /\ IF ar_loop_exits(is_recording, threads[w].dur, threads[w].start_time, now)
     THEN \/ threads' = goto(w, "ar_finally") /\ UNCHANGED faults
          \/ threads' = goto(w, ar_handler("pl_stop")) /\ fault(w, "stop_stream")
     ELSE /\ threads' = [threads EXCEPT ![w].pc = "sleeping", ![w].wake = now + SleepTicks]
          /\ UNCHANGED faults
  /\ UNCHANGED <<is_recording, streams, files>> /\ workerFrame

\* _create_dummy_recording: frames = int(duration * self.sample_rate), duration = 1.0
dummy_frames == 1 * sample_rate

\* _create_dummy_recording, called by _record_worker when audio_lib is None and
\* by the handler of _record_with_plyer: wave.open(filepath, 'wb') (may raise);
\* for i in range(frames): wf.writeframes(one sample of the 440 Hz tone)
Dm_record(w) ==
  /\ cls = "AudioRecorder"
  /\ \/ threads[w].pc = "dm_open"
     \/ threads[w].pc = "worker" /\ audio_lib = "None"
  /\ \/ /\ files' = [files EXCEPT ![w] =
              [NoFile EXCEPT !.state = "closed", !.path = threads[w].path,
                             !.tone = dummy_frames]]
        /\ threads' = goto(w, "dm_finally")
        /\ UNCHANGED faults
     \/ /\ threads' = goto(w, ar_handler("dm_open"))
        /\ fault(w, "open_file")
        /\ UNCHANGED files
  /\ UNCHANGED <<is_recording, streams>> /\ workerFrame

\* _create_dummy_recording: finally: self.is_recording = False; then back in
\* _record_with_plyer's handler (its own finally follows) or at the worker's end
Dm_finally(w) ==
  /\ threads[w].pc = "dm_finally"
  /\ is_recording' = FALSE
  /\ threads' = goto(w, IF audio_lib = "plyer" THEN "ar_finally" ELSE "done")
  /\ UNCHANGED <<streams, files, faults>> /\ workerFrame

AR_worker(w) ==
  \/ Py_open(w) \/ Py_loop(w) \/ Py_read_returns(w) \/ Py_hung_raises(w) \/ Py_exit(w)
  \/ Sd_rec(w) \/ Sd_loop(w) \/ Sleep_returns(w)
  \/ Pl_start(w) \/ Pl_loop(w)
  \/ Dm_record(w) \/ Dm_finally(w)
  \/ Ar_finally(w)

\* --------------------------------------------------------- RecordingService

\* RecordingService.start_recording: `if self.is_recording: ... return`
rs_start_rejected(rec) == rec

\* A different stop_recording: one without the is_recording test.
rs_stop_never_returns(rec) == FALSE

\* RecordingService.stop_recording: `if not self.is_recording: return`
rs_stop_returns(rec) == ~rec

\* get_recordings_directory raises: always NameError on android when the
\* import block failed (primary_external_storage_path is unbound)
dir_must_fail == platform = "android" /\ ~svc_bridge(platform, installed)

\* show_notification / hide_notification reach the notification manager only on
\* android with PythonService.mService set (where the wake lock exists too)
notifies == platform = "android" /\ wake_lock

\* the loop test of _record_audio:
\* `while self.is_recording and (time.time() - start_time) < duration_seconds`
rs_loop_continues(rec, d, start, t) == rec /\ (t - start) < d

\* Where an exception raised at a program point of _record_audio is caught.
rs_handler(pc) ==
  CASE pc = "rs_read" -> "rs_close_file"
    [] pc \in {"rs_open_stream", "rs_open_file", "rs_close_file", "rs_close_stream"}
         -> "rs_finally"
    [] OTHER -> "escaped"

\* fail: where start_recording raises: "none", "dir" (get_recordings_directory)
\* or "thread" (Thread.start)
RS_start_recording(dm, fail) ==
  /\ cls = "RecordingService" /\ caller.pc = "idle" /\ ncalls < MaxCalls
  /\ ncalls' = ncalls + 1
  /\ IF rs_start_rejected(is_recording)
     THEN /\ last_call' = [NoCall EXCEPT !.op = "start"]
          /\ UNCHANGED <<is_recording, recording_thread, threads, nthreads, wake_held,
                         notification, caller>>
     ELSE LET acquired == IF wake_lock THEN {"acquire"} ELSE {} IN
          /\ wake_held' = IF wake_lock THEN wake_held + 1 ELSE wake_held
          /\ dir_must_fail => fail = "dir"
          /\ IF fail = "dir"
             THEN \* except: self.stop_recording(), which returns at once
                  /\ last_call' = [NoCall EXCEPT !.op = "start", !.bridge = acquired]
                  /\ UNCHANGED <<is_recording, recording_thread, threads, nthreads,
                                 notification, caller>>
             ELSE /\ nthreads < MaxThreads
                  /\ notification' = IF notifies THEN "recording" ELSE notification
                  /\ nthreads' = nthreads + 1
                  /\ recording_thread' = nthreads + 1
                  /\ IF fail = "thread"
                     THEN \* except: self.stop_recording() with is_recording true
                          \* and a thread that is not alive
                          /\ is_recording' = FALSE
                          /\ threads' = [threads EXCEPT ![nthreads + 1].pc = "unstarted"]
                          /\ caller' = [IdleCaller EXCEPT !.pc = "st_chk_stream"]
                          /\ last_call' = [NoCall EXCEPT !.op = "start",
                               !.bridge = acquired \cup (IF notifies THEN {"show"} ELSE {})]
                     ELSE /\ is_recording' = TRUE
                          /\ threads' = [threads EXCEPT ![nthreads + 1] =
                               [NoThread EXCEPT !.pc = "worker", !.dur = dm * MinuteTicks,
                                                !.path = create_recording_filename(now)]]
                          /\ caller' = caller
                          /\ last_call' = [NoCall EXCEPT !.op = "start", !.launched = TRUE,
                               !.bridge = acquired \cup (IF notifies THEN {"show"} ELSE {})]
  /\ UNCHANGED <<envVars, audio_data, audio_stream, wave_file, wake_lock, timers,
                 streams, files, now, faults>>

RS_stop_recording ==
  /\ cls = "RecordingService" /\ caller.pc = "idle" /\ ncalls < MaxCalls
  /\ ncalls' = ncalls + 1
  /\ last_call' = [NoCall EXCEPT !.op = "stop"]
  /\ IF rs_stop_returns(is_recording)
     THEN UNCHANGED <<is_recording, caller>>
     ELSE /\ is_recording' = FALSE
          /\ caller' =
               IF recording_thread # NoRef /\ alive(recording_thread)
               THEN [pc |-> "rs_join", wake |-> now + JoinTicks, joined |-> recording_thread]
               ELSE [IdleCaller EXCEPT !.pc = "st_chk_stream"]
  /\ UNCHANGED <<envVars, osVars, recording_thread, audio_data, audio_stream, wave_file,
                 threads, nthreads, streams, files, now, faults>>

\* what a step of stop_recording's clean-up leaves alone besides caller,
\* audio_stream, wave_file, streams, files
stopFrame ==
  UNCHANGED <<envVars, is_recording, recording_thread, audio_data, threads, nthreads,
              now, ncalls, faults>>

\* recording_thread.join(timeout=5.0) returns
RS_join_returns ==
  /\ caller.pc = "rs_join"
  /\ join_returns(terminated(caller.joined), caller.wake, now)
  /\ caller' = [IdleCaller EXCEPT !.pc = "st_chk_stream"]
  /\ UNCHANGED <<osVars, audio_stream, wave_file, streams, files, last_call>> /\ stopFrame

\* `if self.audio_stream:`
St_chk_stream ==
  /\ caller.pc = "st_chk_stream"
  /\ caller' = [caller EXCEPT !.pc =
         IF audio_stream # NoRef THEN "st_close_stream" ELSE "st_chk_file"]
  /\ UNCHANGED <<osVars, audio_stream, wave_file, streams, files, last_call>> /\ stopFrame

\* self.audio_stream.stop_stream(); self.audio_stream.close().  AttributeError
\* when the worker has set the attribute to None meanwhile; closing a stream
\* that is closed already raises or does nothing (pyaudio does not say).
\* except: the rest of stop_recording is skipped
St_close_stream ==
  /\ caller.pc = "st_close_stream"
  /\ IF audio_stream = NoRef
     THEN caller' = IdleCaller /\ UNCHANGED streams
     ELSE \/ /\ streams' = [streams EXCEPT ![audio_stream] = "closed"]
             /\ caller' = [caller EXCEPT !.pc = "st_clr_stream"]
          \/ /\ streams[audio_stream] = "closed"
             /\ caller' = IdleCaller /\ UNCHANGED streams
  /\ UNCHANGED <<osVars, audio_stream, wave_file, files, last_call>> /\ stopFrame

\* self.audio_stream = None
St_clr_stream ==
  /\ caller.pc = "st_clr_stream"
  /\ audio_stream' = NoRef
  /\ caller' = [caller EXCEPT !.pc = "st_chk_file"]
  /\ UNCHANGED <<osVars, wave_file, streams, files, last_call>> /\ stopFrame

\* `if self.wave_file:`
St_chk_file ==
  /\ caller.pc = "st_chk_file"
  /\ caller' = [caller EXCEPT !.pc =
         IF wave_file # NoRef THEN "st_close_file" ELSE "st_tail"]
  /\ UNCHANGED <<osVars, audio_stream, wave_file, streams, files, last_call>> /\ stopFrame

\* self.wave_file.close() (Wave_write.close of a closed file does nothing)
St_close_file ==
  /\ caller.pc = "st_close_file"
  /\ IF wave_file = NoRef
     THEN caller' = IdleCaller /\ UNCHANGED files
     ELSE /\ files' = [files EXCEPT ![wave_file].state = "closed"]
          /\ caller' = [caller EXCEPT !.pc = "st_clr_file"]
  /\ UNCHANGED <<osVars, audio_stream, wave_file, streams, last_call>> /\ stopFrame

\* self.wave_file = None
St_clr_file ==
  /\ caller.pc = "st_clr_file"
  /\ wave_file' = NoRef
  /\ caller' = [caller EXCEPT !.pc = "st_tail"]
  /\ UNCHANGED <<osVars, audio_stream, streams, files, last_call>> /\ stopFrame

\* self.hide_notification(); if self.wake_lock and self.wake_lock.isHeld(): release()
St_tail ==
  /\ caller.pc = "st_tail"
  /\ notification' = IF notifies THEN "none" ELSE notification
  /\ wake_held' = IF wake_lock /\ wake_held > 0 THEN wake_held - 1 ELSE wake_held
  /\ last_call' = [last_call EXCEPT !.bridge =
         @ \cup (IF notifies THEN {"hide"} ELSE {})
           \cup (IF wake_lock /\ wake_held > 0 THEN {"release"} ELSE {})]
  /\ caller' = IdleCaller
  /\ UNCHANGED <<wake_lock, timers, audio_stream, wave_file, streams, files>> /\ stopFrame

\* what a step of _record_audio leaves alone besides threads, streams, files,
\* audio_stream, wave_file, is_recording, notification, timers
rsFrame ==
  UNCHANGED <<envVars, wake_lock, wake_held, recording_thread, audio_data, nthreads,
              now, caller, ncalls, last_call>>

\* _record_audio: `if not pyaudio: ... return`; audio = pyaudio.PyAudio();
\* self.audio_stream = audio.open(...) (may raise)
Rs_open_stream(w) ==
  /\ cls = "RecordingService" /\ threads[w].pc = "worker"
  /\ IF ~svc_pyaudio(platform, installed)
     THEN threads' = goto(w, "done") /\ UNCHANGED <<streams, audio_stream, faults>>
     ELSE \/ /\ streams' = [streams EXCEPT ![w] = "open"]
             /\ audio_stream' = w
             /\ threads' = goto(w, "rs_open_file")
             /\ UNCHANGED faults
          \/ /\ threads' = goto(w, rs_handler("rs_open_stream"))
             /\ fault(w, "open_stream")
             /\ UNCHANGED <<streams, audio_stream>>
  /\ UNCHANGED <<is_recording, files, wave_file, notification, timers>> /\ rsFrame

\* self.wave_file = wave.open(filepath, 'wb') (may raise); start_time = time.time()
Rs_open_file(w) ==
  /\ threads[w].pc = "rs_open_file"
  /\ \/ /\ files' = [files EXCEPT ![w] =
                       [NoFile EXCEPT !.state = "open", !.path = threads[w].path]]
        /\ wave_file' = w
        /\ threads' = [threads EXCEPT ![w].pc = "rs_loop", ![w].start_time = now]
        /\ UNCHANGED faults
     \/ /\ threads' = goto(w, rs_handler("rs_open_file"))
        /\ fault(w, "open_file")
        /\ UNCHANGED <<files, wave_file>>
  /\ UNCHANGED <<is_recording, streams, audio_stream, notification, timers>> /\ rsFrame

\* the loop test, and self.audio_stream.read(...) entered: AttributeError when
\* the attribute is None, an error when the stream is closed; else the read
\* returns a chunk one chunk-interval later, raises, or hangs
Rs_loop(w) ==
  /\ threads[w].pc = "rs_loop"
  /\ IF ~rs_loop_continues(is_recording, threads[w].dur, threads[w].start_time, now)
     THEN threads' = goto(w, "rs_close_file") /\ UNCHANGED <<files, faults>>
     ELSE IF audio_stream = NoRef \/ streams[audio_stream] = "closed"
     THEN threads' = goto(w, rs_handler("rs_read")) /\ UNCHANGED <<files, faults>>
     ELSE \/ /\ threads' = [threads EXCEPT ![w].pc = "rs_reading", ![w].rd = audio_stream,
                                           ![w].wake = now + ChunkTicks]
             /\ UNCHANGED <<files, faults>>
          \/ /\ threads' = goto(w, rs_handler("rs_read"))
             /\ files' = [files EXCEPT ![w].cut = files[w].chunks]
             /\ fault(w, "read")
          \/ /\ threads' = [threads EXCEPT ![w].pc = "rs_hung", ![w].rd = audio_stream,
                                           ![w].wake = now + ChunkTicks + 1]
             /\ fault(w, "hang")
             /\ UNCHANGED files
  /\ UNCHANGED <<is_recording, streams, audio_stream, wave_file, notification, timers>>
  /\ rsFrame

\* the read returns its chunk; frames.append(data); self.wave_file.writeframes(data):
\* AttributeError when the attribute is None, an error when the file is closed
Rs_read_returns(w) ==
  /\ threads[w].pc \in {"rs_reading", "rs_hung"} /\ now >= threads[w].wake
  /\ IF wave_file = NoRef \/ files[wave_file].state = "closed"
     THEN threads' = goto(w, rs_handler("rs_read")) /\ UNCHANGED files
     ELSE /\ files' = [files EXCEPT ![wave_file].chunks = @ + 1]
          /\ threads' = goto(w, "rs_loop")
  /\ UNCHANGED <<is_recording, streams, audio_stream, wave_file, notification, timers,
                 faults>>
  /\ rsFrame

\* a read ends with an exception: one that hung, or one on a stream that
\* stop_recording closed while it was being read
Rs_read_raises(w) ==
  /\ \/ /\ threads[w].pc = "rs_hung" /\ now >= threads[w].wake
        /\ files' = [files EXCEPT ![w].cut = files[w].chunks]
        /\ fault(w, "read")
     \/ /\ threads[w].pc \in {"rs_reading", "rs_hung"}
        /\ streams[threads[w].rd] = "closed"
        /\ UNCHANGED <<files, faults>>
  /\ threads' = goto(w, rs_handler("rs_read"))
  /\ UNCHANGED <<is_recording, streams, audio_stream, wave_file, notification, timers>>
  /\ rsFrame

\* self.wave_file.close(): AttributeError when the attribute is None
Rs_close_file(w) ==
  /\ threads[w].pc = "rs_close_file"
  /\ IF wave_file = NoRef
     THEN threads' = goto(w, rs_handler("rs_close_file")) /\ UNCHANGED files
     ELSE /\ files' = [files EXCEPT ![wave_file].state = "closed"]
          /\ threads' = goto(w, "rs_clr_file")
  /\ UNCHANGED <<faults, is_recording, streams, audio_stream, wave_file, notification, timers>>
  /\ rsFrame

\* self.wave_file = None
Rs_clr_file(w) ==
  /\ threads[w].pc = "rs_clr_file"
  /\ wave_file' = NoRef
  /\ threads' = goto(w, "rs_close_stream")
  /\ UNCHANGED <<faults, is_recording, streams, files, audio_stream, notification, timers>>
  /\ rsFrame

\* self.audio_stream.stop_stream(); self.audio_stream.close(): AttributeError
\* when the attribute is None; closing a closed stream raises or does nothing
Rs_close_stream(w) ==
  /\ threads[w].pc = "rs_close_stream"
  /\ IF audio_stream = NoRef
     THEN threads' = goto(w, rs_handler("rs_close_stream")) /\ UNCHANGED streams
     ELSE \/ /\ streams' = [streams EXCEPT ![audio_stream] = "closed"]
             /\ threads' = goto(w, "rs_clr_stream")
          \/ /\ streams[audio_stream] = "closed"
             /\ threads' = goto(w, rs_handler("rs_close_stream"))
             /\ UNCHANGED streams
  /\ UNCHANGED <<faults, is_recording, files, audio_stream, wave_file, notification, timers>>
  /\ rsFrame

\* self.audio_stream = None; audio.terminate(); if self.is_recording:
\* show_notification("Recording saved ..."); threading.Timer(5.0, hide).start()
Rs_clr_stream(w) ==
  /\ threads[w].pc = "rs_clr_stream"
  /\ audio_stream' = NoRef
  /\ notification' = IF is_recording /\ notifies THEN "saved" ELSE notification
  /\ timers' = IF is_recording /\ platform = "android"
               THEN timers \cup {now + JoinTicks} ELSE timers
  /\ threads' = goto(w, "rs_finally")
  /\ UNCHANGED <<faults, is_recording, streams, files, wave_file>> /\ rsFrame

\* finally: self.is_recording = False
Rs_finally(w) ==
  /\ threads[w].pc = "rs_finally"
  /\ is_recording' = FALSE
  /\ threads' = goto(w, "done")
  /\ UNCHANGED <<faults, streams, files, audio_stream, wave_file, notification, timers>>
  /\ rsFrame

\* the threading.Timer(5.0, self.hide_notification) fires (on a desktop
\* hide_notification returns at once: no timer is kept there)
Timer_fires ==
  /\ \E t \in timers :
       /\ now >= t
       /\ timers' = timers \ {t}
  /\ notification' = IF notifies THEN "none" ELSE notification
  /\ UNCHANGED <<envVars, objVars, wake_lock, wake_held, runVars>>

RS_worker(w) ==
  \/ Rs_open_stream(w) \/ Rs_open_file(w) \/ Rs_loop(w) \/ Rs_read_returns(w)
  \/ Rs_read_raises(w) \/ Rs_close_file(w) \/ Rs_clr_file(w) \/ Rs_close_stream(w)
  \/ Rs_clr_stream(w) \/ Rs_finally(w)

RS_stop_cleanup ==
  \/ St_chk_stream \/ St_close_stream \/ St_clr_stream
  \/ St_chk_file \/ St_close_file \/ St_clr_file \/ St_tail

\* ------------------------------------------------------------------- time

\* the caller lets time pass: it is between two calls, or inside a join whose
\* thread is alive and whose timeout is not up
caller_waits ==
  \/ caller.pc = "idle"
  \/ /\ caller.pc \in {"ar_join", "rs_join"}
     /\ ~terminated(caller.joined)
     /\ caller.wake > now

\* a thread lets time pass: it is not running, or it is inside a blocking call
\* that is not due to return yet
thread_waits(w) ==
  \/ ~alive(w)
  \/ threads[w].pc \in HungPcs
  \/ threads[w].pc \in TimedPcs /\ threads[w].wake > now

Tick ==
  /\ now < MaxTime
  /\ caller_waits
  /\ \A w \in ThreadIds : thread_waits(w)
  /\ \A t \in timers : t > now
  /\ now' = now + 1
  /\ UNCHANGED <<envVars, objVars, osVars, threads, nthreads, streams, files, caller,
                 ncalls, last_call, faults>>

\* ------------------------------------------------- the scheduler: values

\* a datetime: day, hour, minute, second (seconds stand for everything below
\* a minute)
datetime(d, h, m, sec) == [day |-> d, hour |-> h, minute |-> m, second |-> sec]

\* datetime.timestamp() and datetime.fromtimestamp(), local time without
\* daylight-saving changes
timestamp(dt) ==
  ((dt.day * HoursPerDay + dt.hour) * MinutesPerHour + dt.minute) * SecondsPerMinute
    + dt.second
fromtimestamp(t) ==
  datetime(t \div (HoursPerDay * MinutesPerHour * SecondsPerMinute),
           (t \div (MinutesPerHour * SecondsPerMinute)) % HoursPerDay,
           (t \div SecondsPerMinute) % MinutesPerHour,
           t % SecondsPerMinute)

\* dt1 <= dt2 on datetimes
dt_le(a, b) ==
  \/ a.day < b.day
  \/ a.day = b.day /\ a.hour < b.hour
  \/ a.day = b.day /\ a.hour = b.hour /\ a.minute < b.minute
  \/ a.day = b.day /\ a.hour = b.hour /\ a.minute = b.minute /\ a.second <= b.second

\* now.replace(hour=.., minute=.., second=0, microsecond=0) raises ValueError
\* for an hour or a minute out of range
replace_ok(h, m) == h \in 0..(HoursPerDay - 1) /\ m \in 0..(MinutesPerHour - 1)
replace(dt, h, m) == [dt EXCEPT !.hour = h, !.minute = m, !.second = 0]

\* scheduled_time + datetime.timedelta(days=1)
next_day(dt) == [dt EXCEPT !.day = @ + 1]

\* A schedule_recording that never moves the time to the next day.
scheduled_time_today(t, h, m) == replace(t, h, m)

\* schedule_recording: the next occurrence of hour:minute
\* `if scheduled_time <= now: scheduled_time += timedelta(days=1)`
scheduled_time(t, h, m) ==
  LET at_day == replace(t, h, m) IN
  IF dt_le(at_day, t) THEN next_day(at_day) ELSE at_day

\* the text of a widget: a number, or something int() raises ValueError for
text(n) == [numeric |-> TRUE, n |-> n]
junk == [numeric |-> FALSE, n |-> 0]
\* f"{n:02d}" / str(n) of load_settings
format(n) == text(n)

\* what the user can leave in the three input widgets
HourTexts == {text(h) : h \in 0..HoursPerDay} \cup {junk}
MinuteTexts == {text(m) : m \in 0..(MinutesPerHour - 1)} \cup {junk}
DurationTexts == {text(d) : d \in (-1)..MaxDuration} \cup {junk}

\* the texts of the three widgets together
form(h, m, d) == [hour |-> h, minute |-> m, duration |-> d]
\* the first and the last minute of the day, a short and a long duration
Times == {<<0, 0>>, <<HoursPerDay - 1, MinutesPerHour - 1>>}
ValidForms == {form(text(t[1]), text(t[2]), text(d)) : t \in Times, d \in {1, MaxDuration}}
\* one form for each way schedule_recording rejects its input
RejectedForms ==
  {form(junk, text(0), text(1)), form(text(0), junk, text(1)), form(text(0), text(0), junk),
   form(text(0), text(0), text(0)), form(text(HoursPerDay), text(0), text(1))}
Forms == ValidForms \cup RejectedForms

\* the entry 'recording' of the JsonStore: the keys it has and their values
\* (the value of a key it does not have is kept at 0 / FALSE)
StoreKeys == {"hour", "minute", "duration", "scheduled_timestamp", "is_scheduled"}
NoEntry ==
  [has |-> {}, hour |-> 0, minute |-> 0, duration |-> 0, scheduled_timestamp |-> 0,
   is_scheduled |-> FALSE, scheduled |-> FALSE]
\* store.exists('recording')
exists(st) == st.has # {}
\* settings.get('is_scheduled', False)
get_is_scheduled(st) == IF "is_scheduled" \in st.has THEN st.is_scheduled ELSE FALSE
\* settings.get('scheduled_timestamp', 0)
get_timestamp(st) == IF "scheduled_timestamp" \in st.has THEN st.scheduled_timestamp ELSE 0

\* the identity of a PendingIntent: PendingIntent.getService(context, 0,
\* Intent(context, PythonService), ...).  Two are the same one when request code
\* and intent match, and the extras of an intent take no part in that match.
NoExtra == 0
pending_intent(duration) == [component |-> "PythonService", code |-> 0, extra |-> NoExtra]

\* the environment of the service process.  The script reads two variables;
\* nothing in the repository sets RECORDING_DURATION, and the intents of
\* main.py carry no 'pythonServiceArgument' extra, from which the service
\* runtime would set PYTHON_SERVICE_ARGUMENT: it is unset or empty
ServiceEnvirons ==
  {[k \in {} |-> ""], [k \in {"PYTHON_SERVICE_ARGUMENT"} |-> ""]}
\* os.environ.get(key, default)
environ_get(env, key, default) == IF key \in DOMAIN env THEN env[key] ELSE default
\* int(os.environ.get('RECORDING_DURATION', '5'))
DefaultDuration == 5

\* no run of the service yet
NoService == [action |-> "none", duration_minutes |-> 0, recording |-> FALSE]
\* start_service(action, duration): start_recording(duration_minutes) of the
\* service's RecordingService, or stop_recording of it
start_service(action, duration, svc) ==
  IF action = "start_recording"
    THEN [action |-> action, duration_minutes |-> duration, recording |-> TRUE]
  ELSE IF action = "stop_recording"
    THEN [action |-> action, duration_minutes |-> svc.duration_minutes, recording |-> FALSE]
  ELSE svc
\* services/service.py, run when the OS starts the service
service_main(env, svc) ==
  start_service(environ_get(env, "PYTHON_SERVICE_ARGUMENT", "start_recording"),
                environ_get(env, "RECORDING_DURATION", DefaultDuration), svc)

\* SimpleVoiceRecorderApp after build(): is_recording, the texts of two
\* widgets, the events pending in the kivy Clock (their times, in the order
\* they were scheduled), the test files written, the number of presses; and
\* the exception that left the last handler, the time of the latest start
NoSimple ==
  [is_recording |-> FALSE, record_btn |-> "Start Recording Test",
   status |-> "Simple Voice Recorder Ready", info |-> "simplified version",
   events |-> <<>>, test_files |-> {}, presses |-> 0, raised |-> "none", started |-> None]

\* the widgets and fields of the application before build()
\* status_label.text: which text it is and the time it shows
label(kind, t) == [kind |-> kind, time |-> t]
NoUi ==
  [built |-> FALSE, status |-> label("No recording scheduled", 0),
   schedule_btn |-> "Schedule Recording",
   hour |-> text(HoursPerDay \div 2), minute |-> text(0), duration |-> text(1),
   recordings_list |-> "No recordings yet", is_recording |-> FALSE]
\* the last handler: its name, the exception that left it ("none" when it
\* returned) and where the Android bridge raised inside it
NoAppCall == [op |-> "none", raised |-> "none", bridge |-> "none"]

\* a device on which the application has never run
AppFresh ==
  /\ wall = 0
  /\ store = NoEntry
  /\ ui = NoUi
  /\ intents = {}
  /\ alarms = {}
  /\ app_call = NoAppCall
  /\ service = NoService
  /\ simple = NoSimple

\* ------------------------------------------------ the scheduler: handlers

\* the handlers of VoiceRecorderApp leave the recorder classes alone
appFrame ==
  UNCHANGED <<platform, installed, import_pc, audio_lib, cls, objVars, osVars, runVars,
              simple>>

\* where a call through the Android bridge can raise: nowhere, before the
\* PendingIntent is made (autoclass, getSystemService, Intent, getService), or
\* in the call of the AlarmManager / of startService after it
BridgeFaults == {"none", "context", "manager"}
bridge_faults(p) == IF p = "android" THEN BridgeFaults ELSE {"none"}

call(op, raised, bridge) == [op |-> op, raised |-> raised, bridge |-> bridge]

\* A load_settings that reads the three keys of every entry that exists.
load_guard_exists(st, key) == exists(st)
\* load_settings: `if self.store.exists('recording')` ... `if 'hour' in settings`
load_guard(st, key) == exists(st) /\ key \in st.has

\* load_settings raises KeyError when it reads settings[key] of an entry
\* without that key
load_raises(st) == \E key \in {"hour", "minute", "duration"} : load_guard(st, key) /\ key \notin st.has
load_settings(u, st) ==
  [u EXCEPT !.hour = IF load_guard(st, "hour") THEN format(st.hour) ELSE @,
            !.minute = IF load_guard(st, "minute") THEN format(st.minute) ELSE @,
            !.duration = IF load_guard(st, "duration") THEN format(st.duration) ELSE @]

\* VoiceRecorderApp().run(): build() makes the widgets and calls load_settings
Build ==
  /\ ~ui.built
  /\ IF load_raises(store)
       THEN /\ ui' = ui
            /\ app_call' = call("build", "KeyError", "none")
       ELSE /\ ui' = load_settings([NoUi EXCEPT !.built = TRUE], store)
            /\ app_call' = call("build", "none", "none")
  /\ UNCHANGED <<wall, store, intents, alarms, service>>
  /\ appFrame

\* the process of the application ends; the store file and what the OS holds stay
Exit ==
  /\ ui.built
  /\ ui' = NoUi
  /\ app_call' = call("exit", "none", "none")
  /\ UNCHANGED <<wall, store, intents, alarms, service>>
  /\ appFrame

\* PendingIntent.getService(context, 0, intent, FLAG_UPDATE_CURRENT): the
\* PendingIntent of that identity, its extras replaced by those of the intent
getService(held, duration) ==
  {i \in held : i.key # pending_intent(duration)}
    \cup {[key |-> pending_intent(duration), duration |-> duration]}
\* alarm_manager.setExactAndAllowWhileIdle(RTC_WAKEUP, alarm_time, pending_intent):
\* an alarm of the same PendingIntent is replaced
setExact(pending, key, t) ==
  {a \in pending : a.key # key} \cup {[key |-> key, time |-> t]}
\* alarm_manager.cancel(pending_intent)
cancel(pending, key) == {a \in pending : a.key # key}

\* A schedule_recording without the check of the duration.
duration_rejected_never(d) == FALSE
\* `if duration <= 0:`
duration_rejected(d) == d <= 0

\* schedule_recording, with the texts the user left in the three widgets
schedule_recording(h, m, d, bf) ==
  /\ ui.built
  /\ LET typed == [ui EXCEPT !.hour = h, !.minute = m, !.duration = d]
         dt == scheduled_time(fromtimestamp(wall), h.n, m.n)
         ts == timestamp(dt)
     IN
     IF ~(h.numeric /\ m.numeric /\ d.numeric)
       THEN \* int() raises ValueError
            /\ ui' = [typed EXCEPT !.status = label("Error: Please enter valid numbers", 0)]
            /\ app_call' = call("schedule", "none", "none")
            /\ bf = "none"
            /\ UNCHANGED <<store, intents, alarms>>
     ELSE IF duration_rejected(d.n)
       THEN /\ ui' = [typed EXCEPT !.status = label("Error: Duration must be positive", 0)]
            /\ app_call' = call("schedule", "none", "none")
            /\ bf = "none"
            /\ UNCHANGED <<store, intents, alarms>>
     ELSE IF ~replace_ok(h.n, m.n)
       THEN \* now.replace raises ValueError
            /\ ui' = [typed EXCEPT !.status = label("Error: Please enter valid numbers", 0)]
            /\ app_call' = call("schedule", "none", "none")
            /\ bf = "none"
            /\ UNCHANGED <<store, intents, alarms>>
     ELSE /\ store' = [NoEntry EXCEPT !.has = StoreKeys, !.hour = h.n, !.minute = m.n,
                                      !.duration = d.n, !.scheduled_timestamp = ts,
                                      !.is_scheduled = TRUE]
          /\ bf \in bridge_faults(platform)
          \* schedule_android_alarm; the text its except clause sets is
          \* replaced by the two assignments after the call
          /\ intents' = IF platform = "android" /\ bf # "context"
                          THEN getService(intents, d.n) ELSE intents
          /\ alarms' = IF platform = "android" /\ bf = "none"
                         THEN setExact(alarms, pending_intent(d.n), ts) ELSE alarms
          /\ ui' = [typed EXCEPT !.status = label("Recording scheduled for", ts),
                                !.schedule_btn = "Reschedule Recording"]
          /\ app_call' = call("schedule", "none", bf)
  /\ UNCHANGED <<wall, service>>
  /\ appFrame

\* cancel_recording
cancel_recording(bf) ==
  /\ ui.built
  /\ bf \in bridge_faults(platform)
  /\ store' = [NoEntry EXCEPT !.has = {"is_scheduled"}, !.is_scheduled = FALSE]
  \* cancel_android_alarm: its intent carries no extras
  /\ intents' = IF platform = "android" /\ bf # "context"
                  THEN getService(intents, NoExtra) ELSE intents
  /\ alarms' = IF platform = "android" /\ bf = "none"
                 THEN cancel(alarms, pending_intent(NoExtra)) ELSE alarms
  /\ ui' = [ui EXCEPT !.status = label("Recording cancelled", 0),
                      !.schedule_btn = "Schedule Recording"]
  /\ app_call' = call("cancel", "none", bf)
  /\ UNCHANGED <<wall, service>>
  /\ appFrame

\* stop_recording of the application: stop_android_service sends the stop
\* intent to the service
app_stop_recording(bf) ==
  /\ ui.built
  /\ bf \in bridge_faults(platform)
  /\ ui' = [ui EXCEPT !.status = label("Recording stopped", 0), !.is_recording = FALSE]
  /\ app_call' = call("stop", "none", bf)
  \* stop_android_service: context.startService(intent) runs the service script
  /\ IF platform = "android" /\ bf = "none"
       THEN \E env \in ServiceEnvirons : service' = service_main(env, service)
       ELSE service' = service
  /\ UNCHANGED <<wall, store, intents, alarms>>
  /\ appFrame

\* An update_status that clears the schedule once its time has come.
update_status_clearing ==
  /\ ui.built
  /\ store' = IF get_is_scheduled(store) /\ get_timestamp(store) <= wall
                THEN [store EXCEPT !.is_scheduled = FALSE] ELSE store
  /\ app_call' = [op |-> "update_status", raised |-> "none", bridge |-> "none"]
  /\ UNCHANGED <<wall, ui, intents, alarms, service, simple>>
  /\ UNCHANGED <<platform, installed, import_pc, audio_lib, cls, objVars, osVars, runVars>>

\* update_status, the callback of Clock.schedule_interval, with
\* update_recordings_list at its end
update_status ==
  /\ ui.built
  /\ LET shown ==
           IF exists(store) /\ get_is_scheduled(store)
             THEN IF ~dt_le(fromtimestamp(get_timestamp(store)), fromtimestamp(wall))
                    THEN label("Recording in", get_timestamp(store) - wall)
                    ELSE label("Recording should be active", 0)
             ELSE ui.status
     IN ui' = [ui EXCEPT !.status = shown, !.recordings_list = "No recordings yet"]
  /\ app_call' = call("update_status", "none", "none")
  /\ UNCHANGED <<wall, store, intents, alarms, service>>
  /\ appFrame

\* an alarm is due: the AlarmManager sends its PendingIntent, which starts the
\* service, and the alarm is no longer pending
due(a) == a.time <= wall
Alarm_fires ==
  /\ \E a \in alarms :
       /\ due(a)
       /\ alarms' = alarms \ {a}
  /\ \E env \in ServiceEnvirons : service' = service_main(env, service)
  /\ app_call' = call("alarm", "none", "none")
  /\ UNCHANGED <<wall, store, ui, intents>>
  /\ appFrame

\* a second of the wall clock passes; an alarm that is due fires first
AppTick ==
  /\ wall < MaxClock
  /\ \A a \in alarms : ~due(a)
  /\ wall' = wall + 1
  /\ UNCHANGED <<store, ui, intents, alarms, app_call, service>>
  /\ appFrame

\* ------------------------------------------------ the simplified app

\* Clock.schedule_once(self.stop_test_recording, 3.0)
TestSeconds == 3

\* the handlers of SimpleVoiceRecorderApp leave everything else alone
simpleFrame ==
  UNCHANGED <<platform, installed, import_pc, audio_lib, cls, objVars, osVars, runVars,
              ui, intents, alarms, app_call, service>>

\* stop_test_recording
stop_test_recording(sm) ==
  [sm EXCEPT !.is_recording = FALSE, !.record_btn = "Start Recording Test",
             !.status = "Test recording completed!"]

\* the button 'Start Recording Test' / 'Stop Recording' is pressed.
\* create_test_recording writes test_recording_<time to the second>.txt, or
\* fails and shows the error
test_recording(fs_fails) ==
  /\ simple.presses < MaxCalls
  /\ IF ~simple.is_recording
       THEN simple' =
              [simple EXCEPT !.is_recording = TRUE,
                             !.record_btn = "Stop Recording",
                             !.events = Append(@, wall + TestSeconds),
                             !.test_files = IF fs_fails THEN @ ELSE @ \cup {wall},
                             !.status = IF fs_fails THEN "Error creating test file"
                                        ELSE "Test file created",
                             !.started = wall,
                             !.presses = @ + 1, !.raised = "none"]
       ELSE /\ ~fs_fails
            /\ simple' = [stop_test_recording(simple) EXCEPT !.presses = @ + 1,
                                                            !.raised = "none"]
  /\ UNCHANGED <<wall, store>>
  /\ simpleFrame

\* an event of the Clock is due: stop_test_recording(dt)
Clock_fires ==
  /\ \E i \in 1..Len(simple.events) :
       /\ simple.events[i] <= wall
       /\ simple' = [stop_test_recording(simple) EXCEPT
                       !.events = [j \in 1..(Len(@) - 1) |-> IF j < i THEN @[j] ELSE @[j + 1]]]
  /\ UNCHANGED <<wall, store>>
  /\ simpleFrame

\* schedule_recording of the simplified app: a placeholder that shows a text
\* and saves the three values; int() of a text that is no number raises
\* ValueError, which nothing catches
simple_schedule_recording(h, m, d) ==
  /\ simple.presses < MaxCalls
  /\ IF h.numeric /\ m.numeric /\ d.numeric
       THEN /\ store' = [NoEntry EXCEPT !.has = {"hour", "minute", "duration", "scheduled"},
                                        !.hour = h.n, !.minute = m.n, !.duration = d.n,
                                        !.scheduled = TRUE]
            /\ simple' = [simple EXCEPT !.status = "Would schedule recording",
                                        !.presses = @ + 1, !.raised = "none"]
       ELSE /\ store' = store
            /\ simple' = [simple EXCEPT !.status = "Would schedule recording",
                                        !.presses = @ + 1, !.raised = "ValueError"]
  /\ UNCHANGED wall
  /\ simpleFrame

\* show_info
show_info ==
  /\ simple.presses < MaxCalls
  /\ simple' = [simple EXCEPT !.info = "Simple Voice Recorder v1.0",
                              !.presses = @ + 1, !.raised = "none"]
  /\ UNCHANGED <<wall, store>>
  /\ simpleFrame

\* a second passes; an event of the Clock that is due fires first
SimpleTick ==
  /\ wall < MaxClock
  /\ \A i \in 1..Len(simple.events) : simple.events[i] > wall
  /\ wall' = wall + 1
  /\ UNCHANGED <<store, simple>>
  /\ simpleFrame

\* ---------------------------------------------------------- specification

\* the processes the recorder objects are built in: class, platform, libraries
Deployments ==
  { <<"AudioRecorder", "android", {"pyaudio", "jnius"}>>,
    <<"AudioRecorder", "android", {"plyer"}>>,
    <<"AudioRecorder", "desktop", {"sounddevice", "soundfile"}>>,
    <<"AudioRecorder", "desktop", {}>>,
    <<"RecordingService", "android", {"pyaudio", "jnius"}>>,
    <<"RecordingService", "android", {"plyer"}>>,
    <<"RecordingService", "desktop", {"pyaudio"}>>,
    <<"RecordingService", "desktop", {}>> }

\* setup_android_service leaves wake_lock None when PythonService.mService is
\* unset or the bridge classes are unbound; AudioRecorder has no wake lock
wake_locks(c, p, inst) ==
  IF c = "RecordingService" /\ svc_bridge(p, inst) THEN BOOLEAN ELSE {FALSE}

\* the fields __init__ sets, and the surroundings of a process that has made no
\* call yet
RecorderFresh ==
  /\ is_recording = FALSE
  /\ recording_thread = NoRef
  /\ audio_data = <<>>
  /\ audio_stream = NoRef
  /\ wave_file = NoRef
  /\ wake_held = 0
  /\ notification = "none"
  /\ timers = {}
  /\ threads = [w \in ThreadIds |-> NoThread]
  /\ nthreads = 0
  /\ streams = [w \in ThreadIds |-> "none"]
  /\ files = [w \in ThreadIds |-> NoFile]
  /\ now = 0
  /\ caller = IdleCaller
  /\ ncalls = 0
  /\ last_call = NoCall
  /\ faults = {}

Fresh == RecorderFresh /\ AppFresh

\* the recorder object right after its constructor, in a process whose imports
\* are done
Init ==
  /\ \E d \in Deployments : cls = d[1] /\ platform = d[2] /\ installed = d[3]
  /\ import_pc = "done"
  /\ audio_lib = import_run(platform, installed, "begin", "unbound")
  /\ wake_lock \in wake_locks(cls, platform, installed)
  /\ Fresh

Next ==
  \/ \E d \in Durations : AR_start_recording(d)
  \/ AR_stop_recording
  \/ AR_join_returns
  \/ \E w \in ThreadIds : AR_worker(w)
  \/ \E dm \in Minutes, fail \in {"none", "dir", "thread"} : RS_start_recording(dm, fail)
  \/ RS_stop_recording
  \/ RS_join_returns
  \/ RS_stop_cleanup
  \/ \E w \in ThreadIds : RS_worker(w)
  \/ Timer_fires
  \/ Tick

Spec == Init /\ [][Next]_vars

\* ------------------------------------------- the import, step by step

Classes == {"AudioRecorder", "RecordingService"}

\* a process that starts to import audio_utils: any platform, any libraries
ImportInit ==
  /\ platform \in Platforms
  /\ installed \in SUBSET Libs
  /\ import_pc = "begin"
  /\ audio_lib = "unbound"
  /\ cls = "none"
  /\ wake_lock = FALSE
  /\ Fresh

\* the next statement of the module-level import runs
Import ==
  /\ import_pc # "done"
  /\ LET s == import_step(platform, installed, import_pc, audio_lib) IN
       import_pc' = s.pc /\ audio_lib' = s.lib
  /\ UNCHANGED <<platform, installed, cls, appVars, objVars, osVars, runVars>>

\* AudioRecorder() / RecordingService(): __init__ reads audio_lib / pyaudio
Construct(c) ==
  /\ import_pc = "done" /\ cls = "none"
  /\ cls' = c
  /\ wake_lock' \in wake_locks(c, platform, installed)
  /\ UNCHANGED <<platform, installed, import_pc, audio_lib, appVars, objVars,
                 wake_held, notification, timers, runVars>>

ImportNext ==
  \/ Import
  \/ \E c \in Classes : Construct(c)

ImportSpec == ImportInit /\ [][ImportNext]_vars

\* the scheduler application on a device on which it has never run
AppInit ==
  /\ platform \in Platforms
  /\ installed = {}
  /\ import_pc = "done"
  /\ audio_lib = "None"
  /\ cls = "VoiceRecorderApp"
  /\ wake_lock = FALSE
  /\ Fresh

AppNext ==
  \/ Build
  \/ Exit
  \/ \E f \in Forms, bf \in BridgeFaults :
       schedule_recording(f.hour, f.minute, f.duration, bf)
  \/ \E bf \in BridgeFaults : cancel_recording(bf)
  \/ \E bf \in BridgeFaults : app_stop_recording(bf)
  \/ update_status
  \/ Alarm_fires
  \/ AppTick

AppSpec == AppInit /\ [][AppNext]_vars

\* the simplified application, built
SimpleInit ==
  /\ platform \in Platforms
  /\ installed = {}
  /\ import_pc = "done"
  /\ audio_lib = "None"
  /\ cls = "SimpleVoiceRecorderApp"
  /\ wake_lock = FALSE
  /\ Fresh

SimpleNext ==
  \/ \E fs_fails \in BOOLEAN : test_recording(fs_fails)
  \/ Clock_fires
  \/ \E f \in Forms : simple_schedule_recording(f.hour, f.minute, f.duration)
  \/ show_info
  \/ SimpleTick

SimpleSpec == SimpleInit /\ [][SimpleNext]_vars

\* schedule_recording alone, for every text of the widgets at every time of the
\* clock: the application has been built on a desktop at some time
ClockInit ==
  /\ platform = "desktop"
  /\ installed = {}
  /\ import_pc = "done"
  /\ audio_lib = "None"
  /\ cls = "VoiceRecorderApp"
  /\ wake_lock = FALSE
  /\ RecorderFresh
  /\ wall \in 0..MaxClock
  /\ store = NoEntry
  /\ ui = [NoUi EXCEPT !.built = TRUE]
  /\ intents = {}
  /\ alarms = {}
  /\ app_call = call("build", "none", "none")
  /\ service = NoService
  /\ simple = NoSimple

ClockNext ==
  \/ \E h \in HourTexts, m \in MinuteTexts, d \in DurationTexts :
       schedule_recording(h, m, d, "none")
  \/ AppTick

ClockSpec == ClockInit /\ [][ClockNext]_vars

\* ------------------------------------------------------------- properties

\* a step that is a call of start_recording / of stop_recording
StartCall == ncalls' = ncalls + 1 /\ last_call'.op = "start"
StopCall == ncalls' = ncalls + 1 /\ last_call'.op = "stop"

\* thread w ends in this step
Ends(w) == ~terminated(w) /\ terminated(w)'

\* pcs at which a thread is inside a stream read
ReadingPcs == {"py_reading", "py_hung", "rs_reading", "rs_hung"}
\* pcs inside the streaming loop: its test, and a read
LoopPcs == {"py_loop", "rs_loop"} \cup ReadingPcs

\* C1: a start_recording call made while is_recording is true is rejected
\* without side effects: AudioRecorder returns False, RecordingService returns
\* None; is_recording, recording_thread, the buffer, the wake lock and the
\* notification keep their values, no bridge call is made, no thread is launched.
C1_StartWhileRecordingRejected ==
  [][ (StartCall /\ is_recording) =>
        /\ last_call'.ret = (IF cls = "AudioRecorder" THEN "False" ELSE "None")
        /\ ~last_call'.launched
        /\ last_call'.bridge = {}
        /\ UNCHANGED <<objVars, osVars, threads, nthreads, streams, files, caller>>
    ]_vars

\* a RecordingService that holds its wake lock and shows its notification has
\* rejected a start_recording call
C1_Witness ==
  /\ cls = "RecordingService" /\ is_recording
  /\ last_call.op = "start" /\ ~last_call.launched
  /\ wake_held = 1 /\ notification = "recording"

\* C2 as the specification words it: of two AudioRecorder.start_recording calls
\* with no stop_recording between them the second returns False and launches no
\* second worker, so one output file is produced.
C2_SecondStartAlwaysRejected ==
  [][ (StartCall /\ cls = "AudioRecorder" /\ last_call.op = "start") =>
        (last_call'.ret = "False" /\ UNCHANGED <<threads, nthreads>>)
    ]_vars

\* C2: of two AudioRecorder.start_recording calls with no stop_recording between
\* them, the second returns False and launches nothing exactly when
\* is_recording is still true; once the first worker has ended and cleared the
\* flag, the second call returns True and launches one more worker.
C2_SecondStartRejectedWhileRecording ==
  [][ (StartCall /\ cls = "AudioRecorder" /\ last_call.op = "start") =>
        IF is_recording
        THEN /\ last_call'.ret = "False"
             /\ UNCHANGED <<is_recording, recording_thread, threads, nthreads, files>>
        ELSE /\ last_call'.ret = "True"
             /\ is_recording'
             /\ nthreads' = nthreads + 1
             /\ recording_thread' = nthreads'
             /\ threads'[nthreads'].pc = "worker"
             /\ \A w \in 1..nthreads : threads'[w] = threads[w]
    ]_vars

\* two start_recording calls, no stop_recording: both were accepted and each
\* worker has written a file
C2_Witness ==
  /\ cls = "AudioRecorder" /\ ncalls = 2 /\ nthreads = 2
  /\ last_call.op = "start" /\ last_call.ret = "True"
  /\ files[1].state = "closed" /\ files[2].state = "closed"

\* C3: stop_recording on a recorder that never started a recording changes
\* nothing: no field, no thread, no notification or wake-lock call, no error.
C3_StopWithoutStartIsNoOp ==
  [][ (StopCall /\ nthreads = 0) =>
        /\ UNCHANGED <<objVars, osVars, threads, nthreads, streams, files, caller,
                       faults>>
        /\ last_call'.bridge = {}
        /\ last_call'.ret = "None"
    ]_vars

\* stop_recording was the first call made on the recorder
C3_Witness ==
  /\ ncalls = 1 /\ last_call.op = "stop" /\ nthreads = 0
  /\ caller = IdleCaller /\ ~is_recording

\* C4: however an AudioRecorder worker ends, in each backend mode, it ends by
\* returning (no exception escapes the thread) and is_recording is false when
\* it has ended; is_recording is false whenever recording_thread has ended.
C4_WorkerEndClearsFlag ==
  [][ cls = "AudioRecorder" =>
        /\ \A w \in ThreadIds :
             Ends(w) => (threads'[w].pc = "done" /\ ~is_recording')
        /\ (recording_thread' # NoRef /\ threads'[recording_thread'].pc = "done")
             => ~is_recording'
    ]_vars

\* an AudioRecorder worker has ended after a failed read, its file closed
C4_Witness ==
  /\ cls = "AudioRecorder" /\ threads[1].pc = "done"
  /\ <<1, "read">> \in faults
  /\ files[1].state = "closed" /\ ~is_recording

\* C5 as the specification words it: once a RecordingService worker has
\* returned, for any reason, is_recording is false.
C5_ServiceWorkerEndClearsFlag ==
  [][ cls = "RecordingService" =>
        \A w \in ThreadIds : Ends(w) => ~is_recording'
    ]_vars

\* C6 as the specification words it: a streaming worker enters a read only
\* when, at the loop test, is_recording is true and no duration was given or
\* less than the duration has elapsed - for every duration given, 0 included.
C6_ReadsOnlyBeforeDuration ==
  [][ \A w \in ThreadIds :
        (threads[w].pc \in {"py_loop", "rs_loop"} /\ threads'[w].pc \in ReadingPcs) =>
          /\ is_recording
          /\ \/ threads[w].dur = None
             \/ (now - threads[w].start_time) < threads[w].dur
    ]_vars

\* C7 as the specification words it: an AudioRecorder recording with a
\* duration D, never stopped, on a backend that works (nothing raises, no read
\* hangs) holds at most D plus one chunk-interval of audio at any time, and at
\* least D minus one chunk-interval when its worker is done with the file.
C7_LengthWithinOneChunkOfDuration ==
  \A w \in ThreadIds :
    (cls = "AudioRecorder" /\ ncalls = 1 /\ faults = {} /\ threads[w].dur # None) =>
      LET length == files[w].chunks * ChunkTicks + files[w].len IN
      /\ audio_lib \in {"pyaudio", "sounddevice"} =>
           length <= threads[w].dur + ChunkTicks
      /\ (audio_lib \in {"pyaudio", "sounddevice"} /\ threads[w].pc = "ar_finally") =>
           length >= threads[w].dur - ChunkTicks

\* C8 as the specification words it: after a read of worker w has failed, w is
\* outside its loop, the file w opened keeps exactly the chunks it held at the
\* failure, and w ends by returning, with that file closed and is_recording
\* false.
C8_ReadFailureEndsRecording ==
  [][ \A w \in ThreadIds :
        files[w].cut # None =>
          /\ threads[w].pc \notin LoopPcs /\ threads'[w].pc \notin LoopPcs
          /\ files'[w].chunks = files[w].cut
          /\ Ends(w) => /\ threads'[w].pc = "done"
                        /\ ~is_recording'
                        /\ files'[w].state = "closed"
    ]_vars

\* neither class has a backend to record with
no_backend ==
  IF cls = "AudioRecorder" THEN audio_lib = "None"
  ELSE ~svc_pyaudio(platform, installed)

\* C9 as the specification words it: with no backend, when stop_recording has
\* returned after a start_recording that launched a worker (and the file system
\* raised nothing), the recording's file is closed and holds exactly
\* sample_rate frames of the tone.
C9_NoBackendYieldsTone ==
  ( /\ no_backend /\ faults = {}
    /\ last_call.op = "stop" /\ caller.pc = "idle"
    /\ recording_thread # NoRef /\ threads[recording_thread].pc # "unstarted" ) =>
      LET f == files[recording_thread] IN
      f.state = "closed" /\ f.tone = sample_rate /\ f.chunks = 0 /\ f.len = 0

\* a backend can be imported: pyaudio, plyer; sounddevice is used with soundfile
available(lib, inst) ==
  IF lib = "sounddevice" THEN {"sounddevice", "soundfile"} \subseteq inst
  ELSE lib \in inst

RECURSIVE first_available(_, _)
\* the first backend of a priority order that can be imported, "None" if none
first_available(order, inst) ==
  IF order = <<>> THEN "None"
  ELSE IF available(Head(order), inst) THEN Head(order)
  ELSE first_available(Tail(order), inst)

\* C10 as the specification words it: when the import is done audio_lib is the
\* first available of pyaudio, sounddevice, plyer, on every platform.
C10_OnePriorityOrder ==
  import_pc = "done" =>
    audio_lib = first_available(<<"pyaudio", "sounddevice", "plyer">>, installed)

\* C10: the import leaves audio_lib at exactly one of the four modes, and no
\* later step changes it; the mode is the first available of pyaudio, plyer on
\* android and of pyaudio, sounddevice elsewhere.
C10_PriorityOrderOfPlatform ==
  import_pc = "done" =>
    /\ audio_lib \in AudioLibs
    /\ audio_lib = first_available(
         IF platform = "android" THEN <<"pyaudio", "plyer">>
         ELSE <<"pyaudio", "sounddevice">>, installed)

\* on android, with sounddevice, soundfile and plyer installed but not pyaudio,
\* a recorder has been built in plyer mode
C10_Witness ==
  /\ import_pc = "done" /\ cls = "AudioRecorder" /\ platform = "android"
  /\ installed = {"sounddevice", "soundfile", "plyer"}
  /\ audio_lib = "plyer"

\* a step of the thread that called stop_recording, after the call step
CallerStep == AR_join_returns \/ RS_join_returns \/ RS_stop_cleanup
JoinPcs == {"ar_join", "rs_join"}

\* C11: stop_recording always returns.  While it runs is_recording is false; it
\* waits in join no longer than the join timeout, also for a worker inside a
\* read that never completes; at every other point its next step can be taken.
C11_StopAlwaysReturns ==
  /\ caller.pc # "idle" /\ last_call.op = "stop" => ~is_recording
  /\ caller.pc \in JoinPcs =>
       /\ now <= caller.wake
       /\ caller.wake - now <= JoinTicks
  /\ caller.pc # "idle" =>
       \/ ENABLED CallerStep
       \/ /\ caller.pc \in JoinPcs
          /\ now < caller.wake
          /\ alive(caller.joined)

\* stop_recording has returned after its join timed out: the worker is still
\* alive, inside a read that has not completed
C11_Witness ==
  /\ caller.pc = "idle" /\ last_call.op = "stop"
  /\ recording_thread # NoRef
  /\ threads[recording_thread].pc \in HungPcs
  /\ now >= JoinTicks

\* ------------------------------------------------------------ the scheduler

\* a step that is a call of schedule_recording with the texts now in the widgets
ScheduleStep == schedule_recording(ui'.hour, ui'.minute, ui'.duration, app_call'.bridge)
\* ... one that accepted its input
ScheduleAccepted == ScheduleStep /\ ui'.status.kind = "Recording scheduled for"
DayLen == HoursPerDay * MinutesPerHour * SecondsPerMinute

next_occurrence(t, h, m) == timestamp(scheduled_time(fromtimestamp(t), h, m))

\* C13: in every reachable state the stored scheduled_timestamp of a scheduled
\* record is the next future occurrence of the stored hour:minute.
C13_StoredTimestampIsNextOccurrence ==
  get_is_scheduled(store) =>
    store.scheduled_timestamp = next_occurrence(wall, store.hour, store.minute)

\* the texts schedule_recording shows for an input it rejects
ErrorTexts == {"Error: Please enter valid numbers", "Error: Duration must be positive"}
\* the widgets hold a non-numeric hour, minute or duration, or a duration <= 0
InputRejected(u) ==
  \/ ~u.hour.numeric
  \/ ~u.minute.numeric
  \/ ~u.duration.numeric
  \/ u.duration.n <= 0

\* C14: a schedule_recording whose input is rejected (non-numeric hour, minute
\* or duration, or a duration <= 0) leaves the persisted record as it was,
\* registers and changes no OS alarm, and only sets an error status text.
C14_RejectedInputChangesNothing ==
  [][ScheduleStep /\ InputRejected(ui') =>
       /\ store' = store
       /\ alarms' = alarms
       /\ intents' = intents
       /\ ui'.status.kind \in ErrorTexts
       /\ ui'.schedule_btn = ui.schedule_btn
       /\ ui'.is_recording = ui.is_recording
       /\ app_call'.raised = "none"]_vars

\* a rejected schedule_recording has returned while an earlier schedule and its
\* alarm are in place
C14_Witness ==
  /\ app_call.op = "schedule"
  /\ InputRejected(ui)
  /\ ui.status.kind \in ErrorTexts
  /\ get_is_scheduled(store)
  /\ alarms # {}

\* the persisted state of an application that holds no schedule: no entry, or
\* an entry with nothing but is_scheduled = False
NeverSet(st) == ~exists(st) \/ (st.has = {"is_scheduled"} /\ ~st.is_scheduled)
\* a step that is a call of cancel_recording
CancelStep == cancel_recording(app_call'.bridge)

\* C15: cancel_recording when no schedule is set raises no error and leaves the
\* persisted state absent or with is_scheduled false; a status tick and
\* load_settings (run by build) on that state raise no error either and leave
\* it so.
C15_CancelWithoutScheduleIsHarmless ==
  [][NeverSet(store) /\ (CancelStep \/ update_status \/ Build) =>
       /\ app_call'.raised = "none"
       /\ NeverSet(store')
       /\ ~get_is_scheduled(store')]_vars

\* load_settings has run, in a new process, on the entry that a
\* cancel_recording wrote; no alarm was ever asked for
C15_Witness ==
  /\ app_call.op = "build" /\ app_call.raised = "none"
  /\ ui.built
  /\ store.has = {"is_scheduled"} /\ ~store.is_scheduled
  /\ intents \subseteq {[key |-> pending_intent(NoExtra), duration |-> NoExtra]}

\* C16: after cancel_recording, following any sequence of schedule and
\* reschedule actions, is_scheduled is false and no OS alarm is pending.
C16_CancelLeavesNothingPending ==
  [][CancelStep => ~get_is_scheduled(store') /\ alarms' = {}]_vars

\* the alarm and the PendingIntent that schedule_android_alarm asks for, for
\* the record st
alarm_of(st) == [key |-> pending_intent(st.duration), time |-> st.scheduled_timestamp]
intent_of(st) == [key |-> pending_intent(st.duration), duration |-> st.duration]

\* C17: there is at most one pending OS alarm (and one schedule record); a
\* reschedule replaces both the record and the alarm, and at every other step
\* a pending alarm keeps the time and the duration it was registered with.
C17_OneRecordOneAlarm ==
  [][/\ Cardinality(alarms') <= 1
     /\ Cardinality(intents') <= 1
     /\ ScheduleAccepted /\ platform = "android" /\ alarms # {} =>
          /\ store' = [store' EXCEPT !.has = StoreKeys, !.is_scheduled = TRUE]
          /\ alarms' = {alarm_of(store')}
          /\ intents' = {intent_of(store')}
     /\ ~ScheduleAccepted /\ alarms' # {} => alarms' = alarms /\ intents' = intents]_vars

\* C18: when registering the alarm fails inside schedule_recording, the status
\* text shown when it returns is the scheduling error, not the confirmation
\* 'Recording scheduled for ...'.
C18_FailedRegistrationShowsError ==
  [][ScheduleStep /\ app_call'.bridge # "none" =>
       /\ ui'.status.kind = "Error scheduling"
       /\ ui'.status.kind # "Recording scheduled for"]_vars

\* a step that is a call of stop_recording of the application
StopStep == app_stop_recording(app_call'.bridge)

\* C19: the persisted record is changed only by schedule_recording and
\* cancel_recording; update_status (with update_recordings_list), load_settings
\* (run by build), stop_recording and the firing of the alarm leave every field
\* of it unchanged.
C19_OnlyScheduleAndCancelWriteTheRecord ==
  [][/\ store' # store => ScheduleStep \/ CancelStep
     /\ update_status \/ Build \/ StopStep \/ Alarm_fires => store' = store]_vars

\* the alarm of a schedule has fired and update_status has run after it: the
\* record is still the one schedule_recording wrote
C19_Witness ==
  /\ app_call.op = "update_status"
  /\ ui.status.kind = "Recording should be active"
  /\ platform = "android" /\ alarms = {} /\ intents # {}
  /\ store.has = StoreKeys /\ store.is_scheduled
  /\ store.scheduled_timestamp <= wall

\* --------------------------------------------------------------- wake lock

\* no recording is active and no call is running: is_recording is false and
\* every worker has ended
NoRecordingActive ==
  /\ caller.pc = "idle"
  /\ ~is_recording
  /\ \A w \in ThreadIds : ~alive(w)

\* C20: the wake lock brackets the active recording: every acquire by
\* RecordingService.start_recording is followed by a release once the recording
\* has ended, so the lock is never held while no recording is active.
C20_WakeLockBracketsRecording == NoRecordingActive => wake_held = 0

\* ------------------------------------------------------- files and workers

\* C21: a recording file is immutable once closed: no recording opens for
\* writing a path that an earlier, already closed recording was written to;
\* the filenames of any two recordings of a process are distinct.
C21_ClosedFileNeverReopened ==
  [][\A w \in ThreadIds :
       files[w].state = "none" /\ files'[w].state # "none" =>
         \A v \in ThreadIds \ {w} :
           files[v].state # "none" => files[v].path # files'[w].path]_vars

\* C22: under every interleaving of start_recording, stop_recording (also one
\* whose join times out on a worker blocked in a read) and a further
\* start_recording, at most one worker of a recorder is inside its record loop.
C22_OneWorkerInLoop ==
  Cardinality({w \in ThreadIds : threads[w].pc \in LoopPcs}) <= 1

\* worker w takes a step
Steps(w) == threads'[w] # threads[w]

\* C23: a recording is ended only by stop_recording or by its own worker: a
\* worker left over from an earlier recording neither starts another read once
\* a new start_recording has set is_recording true again, nor clears
\* is_recording of the new recording.  A worker is left over when it is alive
\* and is not the thread of the latest start_recording.
C23_LeftOverWorkerIsInert ==
  [][\A w \in ThreadIds :
       alive(w) /\ w # recording_thread /\ Steps(w) =>
         /\ threads'[w].pc \notin ReadingPcs
         /\ is_recording => is_recording']_vars

\* C24: in RecordingService, under every interleaving of stop_recording with
\* the worker, the stream and the wave file are each closed once, never a
\* second time, and no worker is inside a read of a stream that has been closed.
\* ClosesStream / ClosesFile: a step of stop_recording or of a worker that
\* calls close() on the stream / the wave file the attribute refers to.
C24_ClosedOnceNoUseAfterClose ==
  [][LET ClosesStream ==
           /\ audio_stream # NoRef
           /\ \/ caller.pc = "st_close_stream" /\ caller' # caller
              \/ \E w \in ThreadIds :
                   threads[w].pc = "rs_close_stream" /\ Steps(w)
         ClosesFile ==
           /\ wave_file # NoRef
           /\ \/ caller.pc = "st_close_file" /\ caller' # caller
              \/ \E w \in ThreadIds :
                   threads[w].pc = "rs_close_file" /\ Steps(w)
     IN cls = "RecordingService" =>
       /\ ClosesStream => streams[audio_stream] # "closed"
       /\ ClosesFile => files[wave_file].state # "closed"
       /\ \A w \in ThreadIds :
            threads'[w].pc \in {"rs_reading", "rs_hung"} =>
              streams'[threads'[w].rd] # "closed"]_vars

\* ------------------------------------------------- the scheduler, continued

\* C25: cancel_recording changes only the is_scheduled flag of the persisted
\* record: the hour, minute and duration saved by the last schedule_recording
\* are still in it afterwards (for load_settings to restore).
C25_CancelKeepsTheSettings ==
  [][CancelStep =>
       /\ ~get_is_scheduled(store')
       /\ store'.has \ {"is_scheduled"} = store.has \ {"is_scheduled"}
       /\ store'.hour = store.hour
       /\ store'.minute = store.minute
       /\ store'.duration = store.duration
       /\ store'.scheduled_timestamp = store.scheduled_timestamp]_vars

\* C26: on android the persisted record and the OS alarm stay consistent: in
\* every reachable state where is_scheduled is true and scheduled_timestamp is
\* in the future, an alarm is pending for exactly scheduled_timestamp.
C26_RecordAndAlarmConsistent ==
  platform = "android" /\ get_is_scheduled(store) /\ get_timestamp(store) > wall =>
    alarms = {alarm_of(store)}

\* C27: the recording started when the alarm fires uses the duration of the
\* schedule: the duration_minutes the service entry point passes to
\* RecordingService.start_recording equals the duration extra of the intent
\* that schedule_android_alarm registered.
C27_ServiceUsesScheduledDuration ==
  [][Alarm_fires =>
       /\ service'.recording
       /\ \A i \in intents : service'.duration_minutes = i.duration]_vars

\* ------------------------------------------------------- the simplified app

\* C28: in the simplified app a test recording is ended only by a press or by
\* the 3-second timer armed when it started: no event of the Clock ends a test
\* recording before its own 3 seconds have elapsed.
C28_TimerEndsOnlyItsOwnRecording ==
  [][Clock_fires /\ simple.is_recording => wall >= simple.started + TestSeconds]_vars

\* ------------------------------------------------------------ notification

\* C29: the notification shown by RecordingService.start_recording is hidden
\* after the recording has ended, on every path: once every worker has ended
\* and no hide timer is pending, no notification is shown.
C29_NotificationHiddenAfterRecording ==
  /\ caller.pc = "idle"
  /\ \A w \in ThreadIds : ~alive(w)
  /\ timers = {}
  => notification = "none"

=============================================================================
